---- MODULE Spec2Model ----
(***************************************************************************)
(* The live voice bridge of the chat client: connectLive and               *)
(* closeLiveSession of the Gemini service (src/components/ChatMessage.tsx, *)
(* lines 311-386) with the module-level state they share, the transport    *)
(* callbacks they register, and the platform events that drive them.       *)
(*                                                                         *)
(* Every connectLive call creates one numbered session k: a pair of audio  *)
(* contexts, a transport, and (once the transport opens and getUserMedia   *)
(* resolves) a microphone stream and a script processor.  The module-level *)
(* handles (liveSession, mediaStream, ...) hold the number of the object   *)
(* they reference, or null.                                                *)
(*                                                                         *)
(* Platform behaviour assumed (Web Audio / WebSocket):                     *)
(*  - a closed AudioContext keeps its currentTime and fires no events;     *)
(*    nodes can still be created and started on it without an exception;   *)
(*  - a transport that was closed or has failed delivers no more messages; *)
(*    its close event is delivered to onclose;                             *)
(*  - a script processor fires onaudioprocess while it is connected and    *)
(*    its context is running.                                              *)
(***************************************************************************)
EXTENDS Integers, Sequences, FiniteSets, TLC

\* ---- bounds of the model ------------------------------------------------
\* Spec: overlapping and successive sessions.
MaxSessions == 2    \* connectLive calls
MaxMsgs     == 1    \* inbound transport messages (all sessions)
MaxClock    == 1    \* ticks of the playback clock
MaxDur      == 1    \* a decoded segment lasts 1..MaxDur ticks
MaxFrames   == 1    \* onaudioprocess callbacks
\* SpecSingle and SpecThrow: one connectLive call, longer message streams.
SingleMsgs   == 2
SingleClock  == 2
SingleDur    == 2
SingleFrames == 2
SingleSessions == 1
\* SpecStop: starting, failing and stopping, with messages in flight.
StopSessions == 1
StopMsgs     == 1
StopDur      == 1
\* SpecCapture: the capture path of overlapping sessions.
CapSessions == 2
CapFrames   == 2
\* SpecPlayback: the playback path.
PlaySessions == 1
PlayMsgs     == 2
PlayClock    == 1
PlayDur      == 1
\* SpecVoice: the App component as the host of the voice session.
AppSessions == 2    \* voice sessions started with the toggle
AppFrames   == 1    \* onaudioprocess callbacks
\* SpecChat: the App component and ChatInput in the request modes.
AppRequests == 2    \* sendMessage and handleQuickAction calls
AppFiles    == 2    \* files picked in one file dialog
\* SpecEncode: the frame encoder on chunks of sample values.
EncLen    == 2      \* a capture chunk has 1..EncLen samples
SampleDen == 4      \* the samples are the values n / SampleDen, n in -SampleDen..SampleDen

Sessions == 1..MaxSessions

\* `let liveSession: LiveSession | null = null`
null == 0

VARIABLES
    nSessions,            \* number of connectLive calls so far
    liveSession,          \* module-level handles: null or an object's number
    inputAudioContext,
    outputAudioContext,
    mediaStream,
    scriptProcessor,
    nextStartTime,        \* the scheduling cursor
    sources,              \* Set<AudioBufferSourceNode>: message numbers
    transport,            \* [Sessions -> "none","connecting","open","closing","closed"]
    gum,                  \* [Sessions -> "none","pending","granted","denied"]
    inCtx,                \* [Sessions -> "none","running","closed"]
    outCtx,               \* [Sessions -> "none","running","closed"]
    outTime,              \* [Sessions -> currentTime of the output context]
    stream,               \* [Sessions -> "none","live","stopped"]
    proc,                 \* [Sessions -> [st: "none","connected","disconnected", ctx]]
    msgs,                 \* inbound messages in arrival order
    sent,                 \* sendRealtimeInput calls, in order
    nChunks,              \* onaudioprocess callbacks so far
    hostOpen,             \* [Sessions -> number of callbacks.onOpen calls]
    hostClose,            \* [Sessions -> number of callbacks.onClose calls]
    hostError,            \* [Sessions -> number of callbacks.onError calls]
    stopped,              \* sessions started before the latest closeLiveSession call
    mounted,              \* the App component is rendered (its callbacks are the host's)
    appMode,              \* App state: "chat", "image", "video", "voice"
    isVoiceSessionActive,
    isLoading,
    isVeoKeyNeeded,
    messages,             \* App state: the message list, [id, role, content]
    requests,             \* sendMessage / handleQuickAction calls: [handler, mode, files, st]
    files                 \* ChatInput state: the number of attached files

handles == <<liveSession, inputAudioContext, outputAudioContext, mediaStream, scriptProcessor>>
playback == <<nextStartTime, sources, msgs>>
platform == <<transport, gum, inCtx, outCtx, outTime, stream, proc>>
capture == <<sent, nChunks>>
host == <<hostOpen, hostClose, hostError>>
app == <<mounted, appMode, isVoiceSessionActive, isLoading, isVeoKeyNeeded,
         messages, requests, files>>
vars == <<nSessions, handles, playback, platform, capture, host, stopped, app>>

Max(a, b) == IF a >= b THEN a ELSE b

Init ==
    /\ nSessions = 0
    /\ liveSession = null
    /\ inputAudioContext = null
    /\ outputAudioContext = null
    /\ mediaStream = null
    /\ scriptProcessor = null
    /\ nextStartTime = 0
    /\ sources = {}
    /\ transport = [k \in Sessions |-> "none"]
    /\ gum = [k \in Sessions |-> "none"]
    /\ inCtx = [k \in Sessions |-> "none"]
    /\ outCtx = [k \in Sessions |-> "none"]
    /\ outTime = [k \in Sessions |-> 0]
    /\ stream = [k \in Sessions |-> "none"]
    /\ proc = [k \in Sessions |-> [st |-> "none", ctx |-> null]]
    /\ msgs = <<>>
    /\ sent = <<>>
    /\ nChunks = 0
    /\ hostOpen = [k \in Sessions |-> 0]
    /\ hostClose = [k \in Sessions |-> 0]
    /\ hostError = [k \in Sessions |-> 0]
    /\ stopped = {}
    /\ mounted = FALSE
    /\ appMode = "chat"
    /\ isVoiceSessionActive = FALSE
    /\ isLoading = FALSE
    /\ isVeoKeyNeeded = FALSE
    /\ messages = <<>>
    /\ requests = <<>>
    /\ files = 0

\* ---- the callbacks handleVoiceToggle passes to connectLive ---------------
\* `addMessage`: a message that belongs to no request has id 0.
Message(role, content) == [id |-> 0, role |-> role, content |-> content]

\* They act on the App's state when the App is the host (it is mounted); a
\* host that drives the service directly only has its calls counted.
OnOpen ==
    IF mounted
    THEN /\ isVoiceSessionActive' = TRUE
         /\ isLoading' = FALSE
         /\ messages' = Append(messages, Message("model", "text"))
         /\ UNCHANGED <<mounted, appMode, isVeoKeyNeeded, requests, files>>
    ELSE UNCHANGED app

OnClose ==
    IF mounted
    THEN /\ isVoiceSessionActive' = FALSE
         /\ messages' = Append(messages, Message("model", "text"))
         /\ UNCHANGED <<mounted, appMode, isLoading, isVeoKeyNeeded, requests, files>>
    ELSE UNCHANGED app

OnError ==
    IF mounted
    THEN /\ isVoiceSessionActive' = FALSE
         /\ messages' = Append(messages, Message("model", "error"))
         /\ UNCHANGED <<mounted, appMode, isLoading, isVeoKeyNeeded, requests, files>>
    ELSE UNCHANGED app

\* ---- connectLive ---------------------------------------------------------
\* Creates both audio contexts and starts the transport connect; it neither
\* looks at liveSession nor awaits the connect.  (getAi() throws before any of
\* this when no API key is configured; the model has a key configured.)
ConnectLiveBody ==
    /\ nSessions + 1 \in Sessions
    /\ LET k == nSessions + 1 IN
        /\ nSessions' = k
        /\ inputAudioContext' = k
        /\ outputAudioContext' = k
        /\ inCtx' = [inCtx EXCEPT ![k] = "running"]
        /\ outCtx' = [outCtx EXCEPT ![k] = "running"]
        /\ transport' = [transport EXCEPT ![k] = "connecting"]
    /\ UNCHANGED <<liveSession, mediaStream, scriptProcessor, playback, gum,
                   outTime, stream, proc, capture, host, stopped>>

\* connectLive called by a host other than the App.
ConnectLive ==
    /\ ConnectLiveBody
    /\ UNCHANGED app

\* onopen: sessionPromise.then runs up to the await of getUserMedia.
TransportOpen(k) ==
    /\ transport[k] = "connecting"
    /\ transport' = [transport EXCEPT ![k] = "open"]
    /\ liveSession' = k
    /\ gum' = [gum EXCEPT ![k] = "pending"]
    /\ UNCHANGED <<nSessions, inputAudioContext, outputAudioContext, mediaStream,
                   scriptProcessor, playback, inCtx, outCtx, outTime, stream, proc,
                   capture, host, stopped>>
    /\ UNCHANGED app

\* The connect promise rejects: nothing awaits or catches it.
ConnectReject(k) ==
    /\ transport[k] = "connecting"
    /\ transport' = [transport EXCEPT ![k] = "closed"]
    /\ UNCHANGED <<nSessions, handles, playback, gum, inCtx, outCtx, outTime,
                   stream, proc, capture, host, stopped>>
    /\ UNCHANGED app

\* onerror: callbacks.onError, nothing else.  The failed transport is going
\* down; its close event follows.
TransportError(k) ==
    /\ transport[k] \in {"connecting", "open"}
    /\ transport' = [transport EXCEPT ![k] = "closing"]
    /\ hostError' = [hostError EXCEPT ![k] = @ + 1]
    /\ UNCHANGED <<nSessions, handles, playback, gum, inCtx, outCtx, outTime,
                   stream, proc, capture, hostOpen, hostClose, stopped>>
    /\ OnError

\* TransportClose with the wiring slip `onclose: callbacks.onError`.
TransportCloseAsError(k) ==
    /\ transport[k] \in {"open", "closing"}
    /\ transport' = [transport EXCEPT ![k] = "closed"]
    /\ hostError' = [hostError EXCEPT ![k] = @ + 1]
    /\ UNCHANGED <<nSessions, handles, playback, gum, inCtx, outCtx, outTime,
                   stream, proc, capture, hostOpen, hostClose, stopped>>
    /\ OnError

\* onclose: callbacks.onClose, nothing else (the peer closed, or the close
\* started by close() or by a failure completed).
TransportClose(k) ==
    /\ transport[k] \in {"open", "closing"}
    /\ transport' = [transport EXCEPT ![k] = "closed"]
    /\ hostClose' = [hostClose EXCEPT ![k] = @ + 1]
    /\ UNCHANGED <<nSessions, handles, playback, gum, inCtx, outCtx, outTime,
                   stream, proc, capture, hostOpen, hostError, stopped>>
    /\ OnClose

\* getUserMedia resolves: the rest of the onopen continuation.
GetUserMediaGranted(k) ==
    /\ gum[k] = "pending"
    /\ gum' = [gum EXCEPT ![k] = "granted"]
    /\ mediaStream' = k
    /\ stream' = [stream EXCEPT ![k] = "live"]
    /\ scriptProcessor' = k
    /\ proc' = [proc EXCEPT ![k] = [st |-> "connected", ctx |-> inputAudioContext]]
    /\ hostOpen' = [hostOpen EXCEPT ![k] = @ + 1]
    /\ UNCHANGED <<nSessions, liveSession, inputAudioContext, outputAudioContext,
                   playback, transport, inCtx, outCtx, outTime, capture,
                   hostClose, hostError, stopped>>
    /\ OnOpen

\* getUserMedia rejects: the continuation ends in an unhandled rejection.
GetUserMediaDenied(k) ==
    /\ gum[k] = "pending"
    /\ gum' = [gum EXCEPT ![k] = "denied"]
    /\ UNCHANGED <<nSessions, handles, playback, transport, inCtx, outCtx, outTime,
                   stream, proc, capture, host, stopped>>
    /\ UNCHANGED app

\* ---- the frame encoder of onaudioprocess --------------------------------
\* A float sample is the rational n / SampleDen, held as its numerator n.
\* `inputData[i] * 32768`
PcmScale == 32768

\* The integer part of num / den, den > 0 (the conversion of a Number to an
\* integer truncates toward zero).
Trunc(num, den) == IF num >= 0 THEN num \div den ELSE -((-num) \div den)

\* The store of a Number into an Int16Array element: truncated, then taken
\* modulo 2^16 into -32768..32767.
ToInt16(num, den) == ((Trunc(num, den) + 32768) % 65536) - 32768

\* `int16[i] = inputData[i] * 32768` for every sample of the chunk.
EncodeChunk(inputData) ==
    [i \in 1..Len(inputData) |-> ToInt16(inputData[i] * PcmScale, SampleDen)]

\* `new Uint8Array(int16.buffer)`: the two bytes of every element, low byte
\* first (a little-endian platform).
Uint8View(int16) ==
    [b \in 1..(2 * Len(int16)) |->
        LET u == int16[(b + 1) \div 2] % 65536
        IN  IF b % 2 = 1 THEN u % 256 ELSE u \div 256]

\* The capture chunks of at most maxLen samples.
Chunks(maxLen) ==
    UNION {[1..len -> (-SampleDen)..SampleDen] : len \in 1..maxLen}

\* A chunk of silence.
Silence == {<<0>>}

\* AudioProcess with frames put in front of the earlier ones (a send queue
\* filled with unshift).
AudioProcessUnshift(k, inputData) ==
    /\ proc[k].st = "connected"
    /\ inCtx[proc[k].ctx] = "running"
    /\ nChunks' = nChunks + 1
    /\ sent' = IF liveSession # null
               THEN <<[to |-> liveSession, chunk |-> nChunks + 1,
                       inputData |-> inputData,
                       data |-> Uint8View(EncodeChunk(inputData))]>> \o sent
               ELSE sent
    /\ UNCHANGED <<nSessions, handles, playback, platform, host, stopped>>
    /\ UNCHANGED app

\* scriptProcessor.onaudioprocess of processor k on the chunk inputData:
\* encode the chunk and liveSession?.sendRealtimeInput, on the session the
\* handle names at that moment.  A sent frame is recorded with the chunk it
\* was made from and the bytes handed to encode() (../utils, base64).
AudioProcess(k, inputData) ==
    /\ proc[k].st = "connected"
    /\ inCtx[proc[k].ctx] = "running"
    /\ nChunks' = nChunks + 1
    /\ sent' = IF liveSession # null
               THEN Append(sent, [to |-> liveSession, chunk |-> nChunks + 1,
                                  inputData |-> inputData,
                                  data |-> Uint8View(EncodeChunk(inputData))])
               ELSE sent
    /\ UNCHANGED <<nSessions, handles, playback, platform, host, stopped>>
    /\ UNCHANGED app

\* onmessage up to the await of decodeAudioData: callbacks.onMessage (the
\* message is appended to msgs), and for a message with audio the cursor is
\* raised to the playback clock.
OnMessage(k, audio, d) ==
    /\ transport[k] = "open"
    /\ msgs' = Append(msgs, [sess |-> k, audio |-> audio,
                             dur |-> IF audio THEN d ELSE 0,
                             st |-> IF audio THEN "decoding" ELSE "handled",
                             start |-> 0, endAt |-> 0, ctx |-> null,
                             node |-> "none", ord |-> 0])
    /\ nextStartTime' = IF audio
                        THEN Max(nextStartTime, outTime[outputAudioContext])
                        ELSE nextStartTime
    /\ UNCHANGED <<nSessions, handles, sources, platform, capture, host, stopped>>
    /\ UNCHANGED app

NumScheduled == Cardinality({i \in 1..Len(msgs) : msgs[i].st = "scheduled"})

\* The handler of message i is suspended in `await decodeAudioData(...)`.
\* decodeAudioData (../utils) is asynchronous; nothing orders the moments at
\* which the decodes of different messages resolve, nor a resolution and a
\* later event.
DecodePending(i) ==
    /\ i \in 1..Len(msgs)
    /\ msgs[i].st = "decoding"

\* The rest of onmessage, after the decode of message i resolved: the source
\* node is created on the context outputAudioContext names now, started at
\* the cursor, the cursor advanced, the node added to sources.
DecodeDone(i) ==
    /\ DecodePending(i)
    /\ msgs' = [msgs EXCEPT ![i] =
                  [@ EXCEPT !.st = "scheduled",
                            !.start = nextStartTime,
                            !.endAt = Max(nextStartTime, outTime[outputAudioContext])
                                      + msgs[i].dur,
                            !.ctx = outputAudioContext,
                            !.node = "playing",
                            !.ord = NumScheduled + 1]]
    /\ nextStartTime' = nextStartTime + msgs[i].dur
    /\ sources' = sources \cup {i}
    /\ UNCHANGED <<nSessions, handles, platform, capture, host, stopped>>
    /\ UNCHANGED app

\* SourceEnded without the listener's `sources.delete(sourceNode)`.
SourceEndedKeepsNode(i) ==
    /\ i \in 1..Len(msgs)
    /\ msgs[i].node = "playing"
    /\ outCtx[msgs[i].ctx] = "running"
    /\ outTime[msgs[i].ctx] >= msgs[i].endAt
    /\ msgs' = [msgs EXCEPT ![i].node = "ended"]
    /\ UNCHANGED <<nSessions, handles, nextStartTime, sources, platform, capture,
                   host, stopped>>
    /\ UNCHANGED app

\* The 'ended' listener of a source node that played to its end.
SourceEnded(i) ==
    /\ i \in 1..Len(msgs)
    /\ msgs[i].node = "playing"
    /\ outCtx[msgs[i].ctx] = "running"
    /\ outTime[msgs[i].ctx] >= msgs[i].endAt
    /\ msgs' = [msgs EXCEPT ![i].node = "ended"]
    /\ sources' = sources \ {i}
    /\ UNCHANGED <<nSessions, handles, nextStartTime, platform, capture, host, stopped>>
    /\ UNCHANGED app

\* The playback clock: currentTime of every running output context advances.
Tick(maxClock) ==
    /\ \E k \in Sessions : outCtx[k] = "running"
    /\ \A k \in Sessions : outCtx[k] = "running" => outTime[k] < maxClock
    /\ outTime' = [k \in Sessions |->
                     IF outCtx[k] = "running" THEN outTime[k] + 1 ELSE outTime[k]]
    /\ UNCHANGED <<nSessions, handles, playback, transport, gum, inCtx, outCtx,
                   stream, proc, capture, host, stopped>>
    /\ UNCHANGED app

\* ---- closeLiveSession ----------------------------------------------------
\* The statements of closeLiveSession are numbered 1..9 in source order.
\* Ran for a closeLiveSession without its second statement, `liveSession = null`.
RanWithoutNulling(j, s) == s # 2 /\ (j = 0 \/ s < j)

\* Ran(j, s): statement s is executed in a call whose statement j throws
\* (j = 0: no statement throws).  There is no try/catch in the function.
Ran(j, s) == j = 0 \/ s < j

\* The statements that call into the platform, and whether the call is made
\* (the optional chaining skips a call on a handle that is null/undefined).
CallMade(s) ==
    CASE s = 1 -> liveSession # null
      [] s = 3 -> mediaStream # null
      [] s = 4 -> scriptProcessor # null
      [] s = 5 -> inputAudioContext # null
      [] s = 6 -> outputAudioContext # null
      [] s = 7 -> sources # {}
      [] OTHER -> FALSE

CloseLiveSessionBody(j) ==
    /\ transport' = IF Ran(j, 1) /\ liveSession # null /\ transport[liveSession] = "open"
                    THEN [transport EXCEPT ![liveSession] = "closing"]
                    ELSE transport
    /\ liveSession' = IF Ran(j, 2) THEN null ELSE liveSession
    /\ stream' = IF Ran(j, 3) /\ mediaStream # null
                 THEN [stream EXCEPT ![mediaStream] = "stopped"]
                 ELSE stream
    /\ proc' = IF Ran(j, 4) /\ scriptProcessor # null
               THEN [proc EXCEPT ![scriptProcessor].st = "disconnected"]
               ELSE proc
    /\ inCtx' = IF Ran(j, 5) /\ inputAudioContext # null
                THEN [inCtx EXCEPT ![inputAudioContext] = "closed"]
                ELSE inCtx
    /\ outCtx' = IF Ran(j, 6) /\ outputAudioContext # null
                 THEN [outCtx EXCEPT ![outputAudioContext] = "closed"]
                 ELSE outCtx
    /\ msgs' = IF Ran(j, 7)
               THEN [i \in 1..Len(msgs) |->
                       IF i \in sources THEN [msgs[i] EXCEPT !.node = "stopped"]
                       ELSE msgs[i]]
               ELSE msgs
    /\ sources' = IF Ran(j, 8) THEN {} ELSE sources
    /\ nextStartTime' = IF Ran(j, 9) THEN 0 ELSE nextStartTime
    /\ stopped' = 1..nSessions
    /\ UNCHANGED <<nSessions, inputAudioContext, outputAudioContext, mediaStream,
                   scriptProcessor, gum, outTime, capture, host>>

CloseLiveSession ==
    /\ CloseLiveSessionBody(0)
    /\ UNCHANGED app

\* A call of closeLiveSession in which one of the platform calls throws.
CloseLiveSessionThrows ==
    /\ \E j \in {1, 3, 4, 5, 6, 7} : CallMade(j) /\ CloseLiveSessionBody(j)
    /\ UNCHANGED app

\* ---- the App component (src/App.tsx) and ChatInput ------------------------
AppModes == {"chat", "image", "video", "voice"}

\* The App is rendered: the welcome message effect.
Mount ==
    /\ ~mounted
    /\ nSessions = 0
    /\ mounted' = TRUE
    /\ messages' = <<Message("model", "text")>>
    /\ UNCHANGED <<nSessions, handles, playback, platform, capture, host, stopped,
                   appMode, isVoiceSessionActive, isLoading, isVeoKeyNeeded,
                   requests, files>>

\* handleModeChange.  ChatInput is rendered in every mode but 'voice', in the
\* same place of the tree: it keeps its state across chat, image and video
\* and loses it when the mode is 'voice'.
HandleModeChange(mode) ==
    /\ mounted
    /\ appMode' = mode
    /\ messages' = <<>>
    /\ files' = IF mode = "voice" THEN 0 ELSE files
    /\ IF isVoiceSessionActive
       THEN /\ CloseLiveSessionBody(0)
            /\ isVoiceSessionActive' = FALSE
       ELSE UNCHANGED <<nSessions, handles, playback, platform, capture, host,
                        stopped, isVoiceSessionActive>>
    /\ UNCHANGED <<mounted, isLoading, isVeoKeyNeeded, requests>>

\* handleVoiceToggle: the button is rendered in 'voice' mode and disabled
\* while isLoading.  connectLive has no await: it runs to its end inside the
\* handler and throws nothing (an API key is configured).
HandleVoiceToggle ==
    /\ mounted
    /\ appMode = "voice"
    /\ ~isLoading
    /\ IF isVoiceSessionActive
       THEN /\ CloseLiveSessionBody(0)
            /\ isVoiceSessionActive' = FALSE
            /\ UNCHANGED <<isLoading, messages>>
       ELSE /\ ConnectLiveBody
            /\ isLoading' = TRUE
            /\ messages' = Append(messages, Message("model", "text"))
            /\ UNCHANGED isVoiceSessionActive
    /\ UNCHANGED <<mounted, appMode, isVeoKeyNeeded, requests, files>>

\* ChatInput.handleFileChange with n files picked in the dialog (the attach
\* button is disabled while isLoading).
HandleFileChange(n) ==
    /\ mounted
    /\ appMode # "voice"
    /\ ~isLoading
    /\ files' = IF appMode \in {"image", "video"} /\ n > 1 THEN 1 ELSE n
    /\ UNCHANGED <<nSessions, handles, playback, platform, capture, host, stopped,
                   mounted, appMode, isVoiceSessionActive, isLoading,
                   isVeoKeyNeeded, messages, requests>>

\* The remove button of an attached file.
RemoveFile ==
    /\ mounted
    /\ appMode # "voice"
    /\ files > 0
    /\ files' = files - 1
    /\ UNCHANGED <<nSessions, handles, playback, platform, capture, host, stopped,
                   mounted, appMode, isVoiceSessionActive, isLoading,
                   isVeoKeyNeeded, messages, requests>>

\* `updateMessageContent(id, newContent)`
UpdateMessageContent(id, newContent) ==
    [i \in 1..Len(messages) |->
        IF messages[i].id = id THEN [messages[i] EXCEPT !.content = newContent]
        ELSE messages[i]]

\* ChatInput.handleSend with a prompt typed (prompt) or not, and sendMessage
\* up to its first await: the user message, the 'loading' placeholder of
\* request r, isLoading.
HandleSend(prompt) ==
    /\ mounted
    /\ appMode # "voice"
    /\ (prompt \/ files > 0) /\ ~isLoading
    /\ LET r == Len(requests) + 1 IN
        /\ requests' = Append(requests, [handler |-> "sendMessage", mode |-> appMode,
                                         files |-> files > 0, st |-> "call"])
        /\ messages' = messages \o <<Message("user", "text"),
                                     [id |-> r, role |-> "model", content |-> "loading"]>>
    /\ isLoading' = TRUE
    /\ files' = 0
    /\ UNCHANGED <<nSessions, handles, playback, platform, capture, host, stopped,
                   mounted, appMode, isVoiceSessionActive, isVeoKeyNeeded>>

\* handleQuickAction up to its first await; the quick action buttons are
\* shown on the last message when it is a model text that is not typing.
HandleQuickAction ==
    /\ mounted
    /\ messages # <<>>
    /\ messages[Len(messages)].role = "model"
    /\ messages[Len(messages)].content = "text"
    /\ LET r == Len(requests) + 1 IN
        /\ requests' = Append(requests, [handler |-> "handleQuickAction", mode |-> "chat",
                                         files |-> FALSE, st |-> "call"])
        /\ messages' = messages \o <<Message("user", "text"),
                                     [id |-> r, role |-> "model", content |-> "loading"]>>
    /\ UNCHANGED <<nSessions, handles, playback, platform, capture, host, stopped,
                   mounted, appMode, isVoiceSessionActive, isLoading,
                   isVeoKeyNeeded, files>>

\* Request r answers with a text stream (generateTextStream).
Streams(r) ==
    \/ requests[r].handler = "handleQuickAction"
    \/ requests[r].mode = "chat" /\ ~requests[r].files

\* The content a successful request r ends with.
FinalContent(r) ==
    CASE requests[r].mode = "image" -> "image"
      [] requests[r].mode = "video" -> "video"
      [] OTHER -> "text"

\* streamTextResponse: a chunk of the stream of request r arrives.
RequestChunk(r) ==
    /\ r \in 1..Len(requests)
    /\ Streams(r)
    /\ requests[r].st \in {"call", "stream"}
    /\ requests' = [requests EXCEPT ![r].st = "stream"]
    /\ messages' = UpdateMessageContent(r, "typing")
    /\ UNCHANGED <<nSessions, handles, playback, platform, capture, host, stopped,
                   mounted, appMode, isVoiceSessionActive, isLoading,
                   isVeoKeyNeeded, files>>

\* Request r runs to its end without an exception: the stream ends, or the
\* analysis, the image or the video is there.
RequestSucceeds(r) ==
    /\ r \in 1..Len(requests)
    /\ requests[r].st \in {"call", "stream"}
    /\ requests' = [requests EXCEPT ![r].st = "done"]
    /\ messages' = UpdateMessageContent(r, FinalContent(r))
    /\ isLoading' = IF requests[r].handler = "sendMessage" THEN FALSE ELSE isLoading
    /\ UNCHANGED <<nSessions, handles, playback, platform, capture, host, stopped,
                   mounted, appMode, isVoiceSessionActive, isVeoKeyNeeded, files>>

\* An awaited call of request r throws (notFound: the error message
\* includes "not found").  sendMessage catches it; handleQuickAction has no
\* try/catch.
RequestThrows(r, notFound) ==
    /\ r \in 1..Len(requests)
    /\ requests[r].st \in {"call", "stream"}
    /\ requests' = [requests EXCEPT ![r].st = "done"]
    /\ IF requests[r].handler = "sendMessage"
       THEN /\ messages' = UpdateMessageContent(r, "error")
            /\ isVeoKeyNeeded' = (isVeoKeyNeeded \/ notFound)
            /\ isLoading' = FALSE
       ELSE UNCHANGED <<messages, isVeoKeyNeeded, isLoading>>
    /\ UNCHANGED <<nSessions, handles, playback, platform, capture, host, stopped,
                   mounted, appMode, isVoiceSessionActive, files>>

\* sendMessage in 'video' mode: hasSelectedApiKey resolves to false.
RequestNoKey(r) ==
    /\ r \in 1..Len(requests)
    /\ requests[r].handler = "sendMessage" /\ requests[r].mode = "video"
    /\ requests[r].st = "call"
    /\ requests' = [requests EXCEPT ![r].st = "done"]
    /\ messages' = UpdateMessageContent(r, "error")
    /\ isVeoKeyNeeded' = TRUE
    /\ isLoading' = FALSE
    /\ UNCHANGED <<nSessions, handles, playback, platform, capture, host, stopped,
                   mounted, appMode, isVoiceSessionActive, files>>

\* The button of VeoApiKeyModal, after openSelectKey.
SelectKey ==
    /\ mounted
    /\ isVeoKeyNeeded
    /\ isVeoKeyNeeded' = FALSE
    /\ UNCHANGED <<nSessions, handles, playback, platform, capture, host, stopped,
                   mounted, appMode, isVoiceSessionActive, isLoading, messages,
                   requests, files>>

\* ---- specifications ------------------------------------------------------
\* The events of the platform other than inbound messages, capture callbacks
\* and the clock.
Lifecycle ==
    \/ CloseLiveSession
    \/ \E k \in Sessions : TransportOpen(k)
    \/ \E k \in Sessions : ConnectReject(k)
    \/ \E k \in Sessions : TransportError(k)
    \/ \E k \in Sessions : TransportClose(k)
    \/ \E k \in Sessions : GetUserMediaGranted(k)
    \/ \E k \in Sessions : GetUserMediaDenied(k)
    \/ \E i \in 1..Len(msgs) : DecodeDone(i)
    \/ \E i \in 1..Len(msgs) : SourceEnded(i)

Next ==
    \/ nSessions < MaxSessions /\ ConnectLive
    \/ Lifecycle
    \/ nChunks < MaxFrames
         /\ \E k \in Sessions, inputData \in Silence : AudioProcess(k, inputData)
    \/ Len(msgs) < MaxMsgs
         /\ \E k \in Sessions, audio \in BOOLEAN, d \in 1..MaxDur : OnMessage(k, audio, d)
    \/ Tick(MaxClock)

Spec == Init /\ [][Next]_vars

\* One connectLive call, with longer streams of messages and frames.
NextSingle ==
    \/ nSessions < SingleSessions /\ ConnectLive
    \/ Lifecycle
    \/ nChunks < SingleFrames
         /\ \E k \in Sessions, inputData \in Silence : AudioProcess(k, inputData)
    \/ Len(msgs) < SingleMsgs
         /\ \E k \in Sessions, audio \in BOOLEAN, d \in 1..SingleDur : OnMessage(k, audio, d)
    \/ Tick(SingleClock)

SpecSingle == Init /\ [][NextSingle]_vars

\* The same, when the platform calls of closeLiveSession may throw.
NextThrow == NextSingle \/ CloseLiveSessionThrows

SpecThrow == Init /\ [][NextThrow]_vars

\* The capture path alone: one connectLive call, the transport opens, the
\* microphone is granted, and chunks of samples are captured until the session
\* is closed.
NextEncode ==
    \/ nSessions < SingleSessions /\ ConnectLive
    \/ \E k \in Sessions : TransportOpen(k)
    \/ \E k \in Sessions : GetUserMediaGranted(k)
    \/ nChunks < SingleFrames
         /\ \E k \in Sessions, inputData \in Chunks(EncLen) : AudioProcess(k, inputData)
    \/ CloseLiveSession

SpecEncode == Init /\ [][NextEncode]_vars

\* Starting, failing and stopping: every transport and getUserMedia outcome,
\* closeLiveSession at any moment, messages and their decodes; no playback
\* clock and no capture.
NextStop ==
    \/ nSessions < StopSessions /\ ConnectLive
    \/ CloseLiveSession
    \/ \E k \in Sessions : TransportOpen(k)
    \/ \E k \in Sessions : ConnectReject(k)
    \/ \E k \in Sessions : TransportError(k)
    \/ \E k \in Sessions : TransportClose(k)
    \/ \E k \in Sessions : GetUserMediaGranted(k)
    \/ \E k \in Sessions : GetUserMediaDenied(k)
    \/ \E i \in 1..Len(msgs) : DecodeDone(i)
    \/ Len(msgs) < StopMsgs
         /\ \E k \in Sessions, audio \in BOOLEAN, d \in 1..StopDur : OnMessage(k, audio, d)

SpecStop == Init /\ [][NextStop]_vars

\* The capture path of sessions that overlap or follow each other: frames of
\* silence, no inbound messages.
NextCapture ==
    \/ nSessions < CapSessions /\ ConnectLive
    \/ CloseLiveSession
    \/ \E k \in Sessions : TransportOpen(k)
    \/ \E k \in Sessions : TransportError(k)
    \/ \E k \in Sessions : TransportClose(k)
    \/ \E k \in Sessions : GetUserMediaGranted(k)
    \/ nChunks < CapFrames
         /\ \E k \in Sessions, inputData \in Silence : AudioProcess(k, inputData)

SpecCapture == Init /\ [][NextCapture]_vars

\* The playback path: messages, decodes, the playback clock, segments
\* ending, and closeLiveSession at any moment.
NextPlayback ==
    \/ nSessions < PlaySessions /\ ConnectLive
    \/ CloseLiveSession
    \/ \E k \in Sessions : TransportOpen(k)
    \/ \E i \in 1..Len(msgs) : DecodeDone(i)
    \/ \E i \in 1..Len(msgs) : SourceEnded(i)
    \/ Len(msgs) < PlayMsgs
         /\ \E k \in Sessions, audio \in BOOLEAN, d \in 1..PlayDur : OnMessage(k, audio, d)
    \/ Tick(PlayClock)

SpecPlayback == Init /\ [][NextPlayback]_vars

\* The App as the host of the voice session: the mode buttons and the voice
\* toggle drive the service; the transport, getUserMedia and the microphone
\* answer.
NextVoice ==
    \/ Mount
    \/ \E mode \in AppModes : HandleModeChange(mode)
    \/ nSessions < AppSessions /\ HandleVoiceToggle
    \/ \E k \in Sessions : TransportOpen(k)
    \/ \E k \in Sessions : ConnectReject(k)
    \/ \E k \in Sessions : TransportError(k)
    \/ \E k \in Sessions : TransportClose(k)
    \/ \E k \in Sessions : GetUserMediaGranted(k)
    \/ \E k \in Sessions : GetUserMediaDenied(k)
    \/ nChunks < AppFrames
         /\ \E k \in Sessions, inputData \in Silence : AudioProcess(k, inputData)

SpecVoice == Init /\ [][NextVoice]_vars

\* The App and ChatInput in the request modes: the mode buttons, the file
\* dialog, send and the quick actions; the requests answer.
NextChat ==
    \/ Mount
    \/ \E mode \in AppModes : HandleModeChange(mode)
    \/ \E n \in 0..AppFiles : HandleFileChange(n)
    \/ RemoveFile
    \/ Len(requests) < AppRequests /\ \E prompt \in BOOLEAN : HandleSend(prompt)
    \/ Len(requests) < AppRequests /\ HandleQuickAction
    \/ \E r \in 1..Len(requests) : RequestChunk(r)
    \/ \E r \in 1..Len(requests) : RequestSucceeds(r)
    \/ \E r \in 1..Len(requests), notFound \in BOOLEAN : RequestThrows(r, notFound)
    \/ \E r \in 1..Len(requests) : RequestNoKey(r)
    \/ SelectKey

SpecChat == Init /\ [][NextChat]_vars

\* ---- sanity of the model ------------------------------------------------
TypeOK ==
    /\ nSessions \in 0..MaxSessions
    /\ liveSession \in 0..nSessions
    /\ inputAudioContext = nSessions /\ outputAudioContext = nSessions
    /\ mediaStream \in 0..nSessions /\ scriptProcessor \in 0..nSessions
    /\ nextStartTime \in Nat
    /\ sources \subseteq 1..Len(msgs)
    /\ \A i \in 1..Len(msgs) : msgs[i].node = "playing" => i \in sources
    /\ \A k \in Sessions :
          /\ transport[k] \in {"none", "connecting", "open", "closing", "closed"}
          /\ gum[k] \in {"none", "pending", "granted", "denied"}
          /\ inCtx[k] \in {"none", "running", "closed"}
          /\ outCtx[k] \in {"none", "running", "closed"}
          /\ stream[k] \in {"none", "live", "stopped"}
          /\ proc[k].st \in {"none", "connected", "disconnected"}
          /\ (k > nSessions) => transport[k] = "none"
    /\ stopped \subseteq 1..nSessions

\* What closeLiveSession does release: everything the handles name.
CloseReleasesHandles ==
    [][CloseLiveSession =>
          /\ liveSession' = null
          /\ liveSession # null => transport'[liveSession] \in {"closing", "closed"}
          /\ mediaStream # null => stream'[mediaStream] = "stopped"
          /\ scriptProcessor # null => proc'[scriptProcessor].st = "disconnected"
          /\ inputAudioContext # null => inCtx'[inputAudioContext] = "closed"
          /\ outputAudioContext # null => outCtx'[outputAudioContext] = "closed"
          /\ sources' = {} /\ nextStartTime' = 0]_vars

\* ---- vocabulary of the claims ------------------------------------------
\* The sessions started since the latest closeLiveSession call.
Unstopped == {k \in 1..nSessions : k \notin stopped}

\* Session k holds no resource: its transport is neither connecting nor
\* open, its microphone stream is not live, its script processor is not
\* connected, and both its audio contexts are closed.
Released(k) ==
    /\ transport[k] \notin {"connecting", "open"}
    /\ stream[k] # "live"
    /\ proc[k].st # "connected"
    /\ inCtx[k] # "running"
    /\ outCtx[k] # "running"

\* The capture pipeline of session k delivers microphone frames.
Feeding(k) ==
    /\ stream[k] = "live"
    /\ proc[k].st = "connected"
    /\ inCtx[proc[k].ctx] = "running"

\* Session k is Open: it was not stopped, its transport is open and the host
\* was given onOpen.
OpenState(k) == k \notin stopped /\ transport[k] = "open" /\ hostOpen[k] > 0

\* The playback state is clean: no source registered, cursor at zero, every
\* scheduled segment stopped or ended.
PlaybackClean ==
    /\ sources = {}
    /\ nextStartTime = 0
    /\ \A i \in 1..Len(msgs) :
          msgs[i].st = "scheduled" => msgs[i].node \in {"stopped", "ended"}

\* The number of messages of session k handed to callbacks.onMessage.
MsgCount(m, k) == Cardinality({i \in 1..Len(m) : m[i].sess = k})

\* ---- C1 ---------------------------------------------------------------
\* C1: within one session that has not been torn down, the start times of
\* the segments, taken in arrival order, do not overlap:
\* start[j] >= start[i] + dur[i] for every earlier arrival i of a later j.
C1_NoOverlapInArrivalOrder ==
    \A i, j \in 1..Len(msgs) :
        ( /\ i < j
          /\ msgs[i].st = "scheduled" /\ msgs[j].st = "scheduled"
          /\ msgs[i].sess = msgs[j].sess
          /\ msgs[i].sess \notin stopped )
        => msgs[j].start >= msgs[i].start + msgs[i].dur

\* ---- C2 ---------------------------------------------------------------
\* C2: once closeLiveSession was called on a session whose onOpen had not
\* fired, the microphone is never captured for that session and the host
\* gets neither onOpen nor onMessage for it.
C2_StopBeforeOpenIsFinal ==
    [][\A k \in Sessions :
          (k \in stopped /\ hostOpen[k] = 0) =>
              /\ hostOpen'[k] = 0
              /\ MsgCount(msgs', k) = MsgCount(msgs, k)
              /\ stream'[k] # "live"]_vars

\* ---- C3 ---------------------------------------------------------------
\* C3: after a teardown that left no stopped session with an open
\* transport, and as long as no audio message of a later session has come
\* in, sources is empty, the cursor is zero and every scheduled segment is
\* stopped or ended.
C3_CleanAfterTeardown ==
    ( /\ stopped # {}
      /\ \A k \in stopped : transport[k] # "open"
      /\ \A i \in 1..Len(msgs) : msgs[i].audio => msgs[i].sess \in stopped )
    => PlaybackClean

\* ---- C4 ---------------------------------------------------------------
\* C4: a connectLive call made while a session started earlier has not been
\* stopped leaves every handle of that session as it was.
C4_SecondStartLeavesFirstUntouched ==
    [][(Unstopped # {} /\ nSessions' # nSessions) => UNCHANGED handles]_vars

\* ---- C5 ---------------------------------------------------------------
\* C5: at most one transport is open and at most one capture pipeline
\* delivers microphone frames.
C5_AtMostOneLiveSession ==
    /\ Cardinality({k \in Sessions : transport[k] = "open"}) <= 1
    /\ Cardinality({k \in Sessions : Feeding(k)}) <= 1

\* ---- C6 ---------------------------------------------------------------
\* C6: the step that delivers a transport error of an Open session to
\* onError leaves the session torn down (no resource held, liveSession
\* null, playback clean) and does not call onClose.
C6_ErrorTearsDown ==
    [][\A k \in Sessions :
          (OpenState(k) /\ hostError'[k] > hostError[k]) =>
              /\ Released(k)'
              /\ liveSession' = null
              /\ PlaybackClean'
              /\ hostClose'[k] = hostClose[k]]_vars

\* ---- C7 ---------------------------------------------------------------
\* A start of session k failed: the connect failed before the transport
\* opened, or getUserMedia was rejected after it opened.
StartFailed(k) ==
    \/ gum[k] = "denied"
    \/ gum[k] = "none" /\ transport[k] \in {"closing", "closed"}

\* C7: a failed start has called onError, holds no resource and is not the
\* live session.
C7_FailedStartReleases ==
    \A k \in Sessions :
        StartFailed(k) => hostError[k] > 0 /\ Released(k) /\ liveSession # k

\* ---- C8 ---------------------------------------------------------------
\* C8: a closeLiveSession call made while a session is Open leaves no
\* session holding a resource, liveSession null and the playback clean.
C8_StopFromOpenTearsDown ==
    [][((\E k \in Sessions : OpenState(k)) /\ CloseLiveSession) =>
          /\ \A k \in Sessions : Released(k)'
          /\ liveSession' = null
          /\ PlaybackClean']_vars

\* ---- C9 ---------------------------------------------------------------
\* C9: a closeLiveSession call in which statement j throws still carries out
\* every other release: liveSession is null, the stream is stopped, the
\* processor disconnected, both contexts closed, sources empty, the cursor
\* zero (the release that threw excepted).
C9_TeardownIsBestEffort ==
    [][\A j \in {1, 3, 4, 5, 6, 7} :
          (CallMade(j) /\ CloseLiveSessionBody(j)) =>
              /\ liveSession' = null
              /\ (j # 3 /\ mediaStream # null) => stream'[mediaStream] = "stopped"
              /\ (j # 4 /\ scriptProcessor # null) =>
                    proc'[scriptProcessor].st = "disconnected"
              /\ (j # 5 /\ inputAudioContext # null) =>
                    inCtx'[inputAudioContext] = "closed"
              /\ (j # 6 /\ outputAudioContext # null) =>
                    outCtx'[outputAudioContext] = "closed"
              /\ sources' = {}
              /\ nextStartTime' = 0]_vars

\* ---- C10 --------------------------------------------------------------
\* C10: a closeLiveSession call made when no session was started since the
\* latest closeLiveSession call (or none was ever started) changes neither
\* liveSession, sources, nextStartTime nor the host's callback counts.
C10_StopWhenIdleIsNoOp ==
    [][(Unstopped = {} /\ CloseLiveSession) =>
          UNCHANGED <<liveSession, sources, nextStartTime, host>>]_vars

\* ---- C11 --------------------------------------------------------------
\* C11: the step that schedules a segment gives sourceNode.start the greater
\* of the cursor and the playback clock, both read at that step: the start
\* time is never earlier than the clock, and equals the clock when the clock
\* is past the cursor.
C11_StartAtMaxOfCursorAndClock ==
    [][\A i \in 1..Len(msgs) :
          (DecodePending(i) /\ msgs'[i].st = "scheduled") =>
              msgs'[i].start = Max(nextStartTime, outTime[outputAudioContext])]_vars

\* ---- C12 --------------------------------------------------------------
\* C12: segments are started in arrival order: when a segment of a session
\* that has not been torn down is started, every audio message of the
\* session that arrived before it has been started already, earlier in the
\* order of the sourceNode.start calls and with an earlier start time.
C12_ScheduledInArrivalOrder ==
    \A i, j \in 1..Len(msgs) :
        ( /\ i < j
          /\ msgs[i].audio /\ msgs[j].st = "scheduled"
          /\ msgs[i].sess = msgs[j].sess
          /\ msgs[i].sess \notin stopped )
        => /\ msgs[i].st = "scheduled"
           /\ msgs[i].ord < msgs[j].ord
           /\ msgs[i].start < msgs[j].start

C14_NothingAfterError ==
    [][\A k \in Sessions :
          hostError[k] > 0 =>
              /\ MsgCount(msgs', k) = MsgCount(msgs, k)
              /\ \A i \in 1..Len(msgs) :
                    (msgs[i].sess = k /\ msgs[i].st # "scheduled")
                        => msgs'[i].st # "scheduled"
              /\ hostError'[k] = hostError[k]]_vars

\* ---- C15 --------------------------------------------------------------
\* The 16-bit signed value of sample i of a frame: low byte first.
Int16At(data, i) ==
    LET u == data[2 * i - 1] + 256 * data[2 * i]
    IN  IF u >= 32768 THEN u - 65536 ELSE u

\* v is s * 32767 rounded to a nearest integer, for the sample s = n / SampleDen
\* (a tie may go either way); no clamping is needed for s in [-1, 1].
IsRounded(v, n) ==
    /\ 2 * (v * SampleDen - n * 32767) <= SampleDen
    /\ 2 * (n * 32767 - v * SampleDen) <= SampleDen

\* C15: every sample s of a sent frame is encoded as round(s * 32767); a
\* sample of 1.0 is encoded as a positive value and a sample of 0.5 as 16383.
C15_EncoderRoundsAndClamps ==
    \A f \in 1..Len(sent) :
        \A i \in 1..Len(sent[f].inputData) :
            LET n == sent[f].inputData[i]
                v == Int16At(sent[f].data, i)
            IN  /\ IsRounded(v, n)
                /\ n = SampleDen => v > 0
                /\ 2 * n = SampleDen => v = 16383

\* ---- C16 --------------------------------------------------------------
\* C16: a sent frame has two bytes for every sample of its chunk, and the
\* 16-bit value at every index, read back as value / 32768, is within one
\* quantization step (1 / 32768) of the sample at the same index.
C16_RoundTripWithinOneStep ==
    \A f \in 1..Len(sent) :
        /\ Len(sent[f].data) = 2 * Len(sent[f].inputData)
        /\ \A i \in 1..Len(sent[f].inputData) :
              LET n == sent[f].inputData[i]
                  v == Int16At(sent[f].data, i)
              IN  /\ v * SampleDen - n * PcmScale <= SampleDen
                  /\ n * PcmScale - v * SampleDen <= SampleDen

\* ---- C17 --------------------------------------------------------------
\* C17: the sendRealtimeInput calls carry captured chunks in capture order:
\* a later call sends a chunk captured later, so that no chunk is sent twice
\* and none is reordered.
C17_SentInCaptureOrder ==
    /\ \A f \in 1..Len(sent) : sent[f].chunk \in 1..nChunks
    /\ \A f, g \in 1..Len(sent) : f < g => sent[f].chunk < sent[g].chunk

\* Two chunks were captured and sent on the open session.
C17_Witness ==
    /\ Len(sent) = 2
    /\ sent[1].to = sent[2].to

\* ---- C18 --------------------------------------------------------------
\* The state a closeLiveSession call leaves: liveSession null, everything
\* the handles name released, no source registered, the cursor at zero, no
\* session started since.
JustClosed ==
    /\ liveSession = null
    /\ mediaStream # null => stream[mediaStream] = "stopped"
    /\ scriptProcessor # null => proc[scriptProcessor].st = "disconnected"
    /\ inputAudioContext # null => inCtx[inputAudioContext] = "closed"
    /\ outputAudioContext # null => outCtx[outputAudioContext] = "closed"
    /\ sources = {}
    /\ nextStartTime = 0
    /\ Unstopped = {}

\* C18: closeLiveSession is idempotent: every call leaves a JustClosed state,
\* and a call made in a JustClosed state (the second of two calls in a row)
\* calls no transport close() and changes nothing.
C18_CloseIsIdempotent ==
    [][CloseLiveSession =>
          /\ JustClosed'
          /\ JustClosed => (~CallMade(1) /\ UNCHANGED vars)]_vars

\* An Open session was closed: the state between two calls in a row.
C18_Witness ==
    /\ JustClosed
    /\ \E k \in Sessions : hostOpen[k] > 0 /\ transport[k] = "closing"

\* ---- C19 --------------------------------------------------------------
\* C19: a step that calls onOpen of session k calls it for the first time,
\* leaves the transport of k open, its microphone live and its processor
\* connected, and k is a session that was neither stopped nor failed.
C19_OnOpenOnceAfterWiring ==
    [][\A k \in Sessions :
          hostOpen'[k] > hostOpen[k] =>
              /\ hostOpen[k] = 0
              /\ transport'[k] = "open"
              /\ stream'[k] = "live"
              /\ proc'[k].st = "connected"
              /\ k \notin stopped
              /\ hostError[k] = 0]_vars

\* ---- C20 --------------------------------------------------------------
\* C20: sources holds exactly the segments that were started and have
\* neither played to their end nor been stopped.
C20_SourcesAreTheLiveSegments ==
    sources = {i \in 1..Len(msgs) :
                  msgs[i].st = "scheduled" /\ msgs[i].node = "playing"}

\* One segment played to its end and left the set while another is in it.
C20_Witness ==
    \E i, j \in 1..Len(msgs) :
        msgs[i].node = "ended" /\ i \notin sources /\ j \in sources

\* ---- the App as the host ---------------------------------------------------
\* C21: whenever isVoiceSessionActive is false and no start is in progress
\* (isLoading is false), no capture pipeline delivers microphone frames; in
\* particular none is left running after onError or a transport-initiated
\* onClose.
C21_NoCaptureWhenInactive ==
    (mounted /\ ~isVoiceSessionActive /\ ~isLoading) =>
        \A k \in 1..nSessions : ~Feeding(k)

\* C22: whenever appMode is not 'voice', liveSession is null and no
\* microphone stream is live, also when the mode was changed while a voice
\* session was still connecting.
C22_NoSessionOutsideVoiceMode ==
    (mounted /\ appMode # "voice") =>
        /\ liveSession = null
        /\ \A k \in 1..nSessions : stream[k] # "live"

\* The outcome of the start of session k is known: the host was given onOpen,
\* or the connect failed, the transport errored or closed, or the microphone
\* was denied.
StartSettled(k) ==
    \/ hostOpen[k] > 0
    \/ transport[k] \notin {"connecting", "open"}
    \/ gum[k] = "denied"

\* Request r of sendMessage has run to its end.
RequestSettled(r) == requests[r].handler = "sendMessage" => requests[r].st = "done"

\* C23: once every start of a voice session and every sendMessage has its
\* outcome, isLoading is false again.
C23_LoadingEndsWithTheOutcome ==
    (/\ mounted
     /\ \A k \in 1..nSessions : StartSettled(k)
     /\ \A r \in 1..Len(requests) : RequestSettled(r)) => ~isLoading

\* The content of a message is final.
FinalContents == {"text", "image", "video", "error"}

\* C24: once its request has finished, by success or by an exception, a
\* 'loading' placeholder that is still in the list has final content.
C24_PlaceholderGetsFinalContent ==
    \A r \in 1..Len(requests) :
        requests[r].st = "done" =>
            \A i \in 1..Len(messages) :
                messages[i].id = r => messages[i].content \in FinalContents

\* C25: whenever the mode is 'image' or 'video', ChatInput holds at most one
\* attached file.
C25_OneFileInImageAndVideoMode ==
    (mounted /\ appMode \in {"image", "video"}) => files <= 1

====
